---- MODULE Spec2Model ----
(***************************************************************************)
(* A model of python-b2c-api/app.py: the bearer-token pipeline of the      *)
(* requires_auth decorator, the scope check, the HTTP boundary of the      *)
(* Flask application and the accounts.json store behind /acctinfo.         *)
(*                                                                         *)
(* Strings are sequences of atoms: an atom is a run of characters that the *)
(* code never looks into (a scheme word, a scope name, a JWT).  The atom   *)
(* " " is a whitespace character.  Concatenating atoms concatenates the    *)
(* strings, so <<"Accounts.Read", "X">> is the one word "Accounts.ReadX".  *)
(* An optional value (a header, a claim that may be missing) is a set with *)
(* at most one element: {} is Python's None / a missing key.               *)
(***************************************************************************)
EXTENDS Integers, Sequences, FiniteSets, TLC

\* ------------------------------------------------------------------ bounds
MaxHeaderLen == 4   \* atoms in an Authorization header value
MaxScpLen == 3      \* atoms in an scp claim
MaxKeys == 2        \* keys in a published key set
Now == 1            \* the clock reading jwt.decode samples
MaxEmails == 2      \* addresses in an emails claim
MaxAccounts == 2    \* records in accounts.json before the request

Reqs == {1, 2}

\* ------------------------------------------------------- program constants
CLIENT_ID == "client-id"
ISSUER == "https://tenant.b2clogin.com/tenant-id/v2.0/"
ALGORITHMS == {"RS256"}
MinPolicy == 10000000
MaxPolicy == 99999999
PolicyNumbers == {MinPolicy, MinPolicy + 1, MaxPolicy}
DefaultBeneficiary == "Homer Simpson"

\* ----------------------------------------------------------------- strings
SP == " "

IsSpace(a) == a = SP

\* str.lower on one atom: it changes every atom that holds an upper-case letter
LowerAtom(a) ==
    CASE a = "Bearer" -> "bearer"
      [] a = "BEARER" -> "bearer"
      [] a = "Basic" -> "basic"
      [] a = "jwt" -> "jwt-lowered"
      [] a = "Accounts.Read" -> "accounts.read"
      [] a = "Accounts.Write" -> "accounts.write"
      [] a = "X" -> "x"
      [] OTHER -> a

lower(s) == [i \in 1..Len(s) |-> LowerAtom(s[i])]

RECURSIVE SplitFrom(_, _, _)
SplitFrom(s, i, cur) ==
    IF i > Len(s)
    THEN (IF cur = <<>> THEN <<>> ELSE <<cur>>)
    ELSE IF IsSpace(s[i])
         THEN (IF cur = <<>> THEN <<>> ELSE <<cur>>) \o SplitFrom(s, i + 1, <<>>)
         ELSE SplitFrom(s, i + 1, Append(cur, s[i]))

\* str.split(): the maximal runs of non-whitespace, in order
split(s) == SplitFrom(s, 1, <<>>)

RECURSIVE StringsUpTo(_, _)
StringsUpTo(atoms, n) ==
    IF n = 0 THEN {<<>>}
    ELSE LET shorter == StringsUpTo(atoms, n - 1)
         IN shorter \cup {Append(s, a) : s \in shorter, a \in atoms}

\* -------------------------------------------------------------- exceptions
NoExc == [type |-> "none", code |-> "", description |-> "", status_code |-> 0]

AuthError(code, description, status_code) ==
    [type |-> "AuthError", code |-> code, description |-> description,
     status_code |-> status_code]

\* an exception of another class (IndexError, KeyError, TypeError, ...)
OtherExc(type) == [type |-> type, code |-> "", description |-> "", status_code |-> 0]

ErrHeaderMissing ==
    AuthError("authorization_header_missing", "Authorization header is expected", 401)
ErrNotBearer ==
    AuthError("invalid_header", "Authorization header must start with Bearer", 401)
ErrTokenNotFound == AuthError("invalid_header", "Token not found", 401)
ErrNotBearerToken ==
    AuthError("invalid_header", "Authorization header must be Bearer token", 401)
ErrUnableToParse ==
    AuthError("invalid_header", "Unable to parse authentication token.", 401)
ErrTokenExpired == AuthError("token_expired", "token is expired", 401)
ErrInvalidClaims ==
    AuthError("invalid_claims",
              "incorrect claims,please check the audience and issuer", 401)
ErrNoKey == AuthError("invalid_header", "Unable to find appropriate key", 401)
ErrUnauthorized ==
    AuthError("Unauthorized", "You don't have access to this resource", 403)

\* ------------------------------------------------- get_token_auth_header
Returned(token) == [exc |-> NoExc, token |-> token]
Raised(exc) == [exc |-> exc, token |-> <<>>]

\* parts[0].lower() != "bearer"
SchemeIsBearer(parts) == lower(parts[1]) = <<"bearer">>

\* a variant that counts the parts before it looks at the scheme
get_token_auth_header_count_first(auth) ==
    IF auth = {} \/ auth = {<<>>}
    THEN Raised(ErrHeaderMissing)
    ELSE LET parts == split(CHOOSE a \in auth : TRUE)
         IN IF parts = <<>> THEN Raised(OtherExc("IndexError"))
            ELSE IF Len(parts) = 1 THEN Raised(ErrTokenNotFound)
            ELSE IF ~SchemeIsBearer(parts) THEN Raised(ErrNotBearer)
            ELSE IF Len(parts) > 2 THEN Raised(ErrNotBearerToken)
            ELSE Returned(parts[2])

\* auth is the optional header value: {} when the request has none
get_token_auth_header(auth) ==
    IF auth = {} \/ auth = {<<>>}
    THEN Raised(ErrHeaderMissing)
    ELSE LET parts == split(CHOOSE a \in auth : TRUE)
         IN IF parts = <<>> THEN Raised(OtherExc("IndexError"))
            ELSE IF ~SchemeIsBearer(parts) THEN Raised(ErrNotBearer)
            ELSE IF Len(parts) = 1 THEN Raised(ErrTokenNotFound)
            ELSE IF Len(parts) > 2 THEN Raised(ErrNotBearerToken)
            ELSE Returned(parts[2])

\* ------------------------------------------------------- tokens and keys
\* The atom "jwt" is the compact serialization of the request's JWT, whose
\* decoded content is the request's tok record; every other atom is text that
\* is no JWT.  A word that starts with the JWT and goes on still has its header
\* and payload segments, with another signature segment.
TokenReading(word) ==
    IF word = <<"jwt">> THEN "intact"
    ELSE IF Len(word) > 1 /\ word[1] = "jwt" THEN "tampered"
    ELSE "garbage"

Kids == {"k1", "k2"}
Moduli == {"n1", "n2"}

\* one entry of the discovery document; kid = {} is an entry with no "kid",
\* full = FALSE an entry that lacks one of "kty", "use", "n", "e"
KeyUniverse ==
    { [kid |-> {"k1"}, n |-> "n1", full |-> TRUE],
      [kid |-> {"k2"}, n |-> "n2", full |-> TRUE],
      [kid |-> {"k1"}, n |-> "n1", full |-> FALSE],
      [kid |-> {}, n |-> "n2", full |-> TRUE] }

KeySets == StringsUpTo(KeyUniverse, MaxKeys)

\* lines 103-112: the loop keeps the last entry whose kid equals the header's
RECURSIVE KeyLoop(_, _, _, _)
KeyLoop(keys, i, hdrKid, rsa_key) ==
    IF i > Len(keys) THEN [exc |-> NoExc, rsa_key |-> rsa_key]
    ELSE IF keys[i].kid = {} \/ hdrKid = {}
         THEN [exc |-> OtherExc("KeyError"), rsa_key |-> {}]
    ELSE IF keys[i].kid = hdrKid
         THEN IF ~keys[i].full
              THEN [exc |-> OtherExc("KeyError"), rsa_key |-> {}]
              ELSE KeyLoop(keys, i + 1, hdrKid,
                           {[kid |-> keys[i].kid, n |-> keys[i].n]})
    ELSE KeyLoop(keys, i + 1, hdrKid, rsa_key)

\* a bug: with no entry for the kid, the first published key is used
FindKeyOrFirst(word, tok, keys) ==
    IF TokenReading(word) = "garbage"
    THEN [exc |-> OtherExc("JWTError"), rsa_key |-> {}]
    ELSE LET found == KeyLoop(keys, 1, tok.kid, {})
         IN IF found.exc = NoExc /\ found.rsa_key = {} /\ keys # <<>>
               /\ keys[1].kid # {} /\ keys[1].full
            THEN [exc |-> NoExc,
                  rsa_key |-> {[kid |-> keys[1].kid, n |-> keys[1].n]}]
            ELSE found

\* jwt.get_unverified_header(token), then the loop over jwks["keys"]
FindKey(word, tok, keys) ==
    IF TokenReading(word) = "garbage"
    THEN [exc |-> OtherExc("JWTError"), rsa_key |-> {}]
    ELSE KeyLoop(keys, 1, tok.kid, {})

\* a bug: jwt.decode called with options verify_signature False
SignatureUnchecked(word, tok, key) == TRUE

\* jws.verify: the header's alg is one of algorithms and the signature is the
\* one the key's owner made over the header and payload segments
SignatureValid(word, tok, key) ==
    /\ TokenReading(word) = "intact"
    /\ tok.alg \in ALGORITHMS
    /\ tok.signer = key.n

NotYetValid(tok, now) == \E t \in tok.nbf : t > now
Expired(tok, now) == \E t \in tok.exp : t < now
\* jose's _validate_aud returns at once for a token with no aud claim, so such
\* a token passes; _validate_iss compares claims.get("iss")
AudienceRejected(tok, audience) == tok.aud # {} /\ audience \notin tok.aud
IssuerRejected(tok, issuer) == tok.iss # issuer

\* a bug: the audience and issuer are checked before the expiry
jwt_decode_claims_first(word, tok, key, audience, issuer, now) ==
    IF ~SignatureValid(word, tok, key) THEN "JWTError"
    ELSE IF NotYetValid(tok, now) THEN "JWTClaimsError"
    ELSE IF AudienceRejected(tok, audience) THEN "JWTClaimsError"
    ELSE IF IssuerRejected(tok, issuer) THEN "JWTClaimsError"
    ELSE IF Expired(tok, now) THEN "ExpiredSignatureError"
    ELSE "none"

\* jwt.decode(token, rsa_key, algorithms, audience, issuer): the class of the
\* exception it raises, "none" when it returns the payload.  The signature is
\* verified first, then the claims in the order nbf, exp, aud, iss.
jwt_decode(word, tok, key, audience, issuer, now) ==
    IF ~SignatureValid(word, tok, key) THEN "JWTError"
    ELSE IF NotYetValid(tok, now) THEN "JWTClaimsError"
    ELSE IF Expired(tok, now) THEN "ExpiredSignatureError"
    ELSE IF AudienceRejected(tok, audience) THEN "JWTClaimsError"
    ELSE IF IssuerRejected(tok, issuer) THEN "JWTClaimsError"
    ELSE "none"

\* lines 128-140: the except clauses around jwt.decode
DecodeError(class) ==
    CASE class = "ExpiredSignatureError" -> ErrTokenExpired
      [] class = "JWTClaimsError" -> ErrInvalidClaims
      [] OTHER -> ErrUnableToParse

\* ------------------------------------------------------------ requires_scope
\* a bug: scopes compared without regard to letter case
ScopeEqualsIgnoreCase(token_scope, required_scope) ==
    lower(token_scope) = lower(required_scope)

ScopeEquals(token_scope, required_scope) == token_scope = required_scope

\* a variant that grants every scope
HasScopeAlways(scp, required_scope) == TRUE

\* lines 154-159 on the scp claim ({} when the claim is missing)
HasScope(scp, required_scope) ==
    \E s \in scp :
        /\ s # <<>>
        /\ \E i \in 1..Len(split(s)) : ScopeEquals(split(s)[i], required_scope)

\* requires_scope(required_scope) for a request with header auth and token tok
requires_scope(auth, tok, required_scope) ==
    LET got == get_token_auth_header(auth)
    IN IF got.exc # NoExc THEN [exc |-> got.exc, value |-> FALSE]
       ELSE IF TokenReading(got.token) = "garbage"
       THEN [exc |-> OtherExc("JWTError"), value |-> FALSE]
       ELSE [exc |-> NoExc, value |-> HasScope(tok.scp, required_scope)]

RequiredScope(endpoint) ==
    IF endpoint = "acctinfo" THEN <<"Accounts.Read">> ELSE <<"Accounts.Write">>

\* -------------------------------------------------------- the accounts file
Account(beneficiary, email, policynumber) ==
    [beneficiary |-> beneficiary, email |-> email, policynumber |-> policynumber]

\* json.dumps / json.loads of the list of accounts: the text of the file
json_dumps(accounts) == [json |-> accounts]
json_loads(text) == text.json

\* load_accounts(): the list in the file, None ({}) when the file cannot be
\* read or parsed (the exception is logged and the function falls off its end)
load_accounts(f) == {json_loads(text) : text \in f}

\* a variant that finds no record
HasEmailNever(accounts, email) == FALSE

HasEmail(accounts, email) == \E i \in 1..Len(accounts) : accounts[i].email = email

\* the index the inner loop over accounts stops at
FirstIndex(accounts, email) ==
    CHOOSE i \in 1..Len(accounts) :
        /\ accounts[i].email = email
        /\ \A j \in 1..(i - 1) : accounts[j].email # email

\* ------------------------------------------------------------------- state
VARIABLES
    req,         \* per request: its inputs, its position and its locals
    idp,         \* the identity provider's discovery endpoint
    file,        \* accounts.json: {} while empty or unreadable, else {text}
    file0,       \* the content of accounts.json before the first request
    fetches,     \* discovery fetches issued so far
    overlapped   \* whether two requests were ever in progress at once

vars == <<req, idp, file, file0, fetches, overlapped>>

NoResult == [kind |-> "none", text |-> "", account |-> {}]
TextResult(text) == [kind |-> "text", text |-> text, account |-> {}]
\* jsonify(account); account = {} is jsonify(None)
JsonResult(account) == [kind |-> "json", text |-> "", account |-> account]

NoResponse == [status |-> 0, result |-> NoResult, error |-> NoExc]

Absent ==
    [endpoint |-> "public", auth |-> {}, name |-> "",
     tok |-> [kid |-> {}, alg |-> "RS256", signer |-> "n1", nbf |-> {}, exp |-> {},
              aud |-> {}, iss |-> ISSUER, scp |-> {}, emails |-> {}],
     pc |-> "absent", token |-> <<>>, jwks |-> <<>>, rsa_key |-> {},
     current_user |-> {}, stages |-> <<>>, f_called |-> FALSE, business |-> FALSE,
     firstRaised |-> NoExc, raised |-> NoExc, accounts |-> {},
     result |-> NoResult, response |-> NoResponse]

\* a request as the server receives it
NewRequest(in) ==
    [Absent EXCEPT !.endpoint = in.endpoint, !.auth = in.auth, !.tok = in.tok,
                   !.name = in.name, !.pc = "arrived"]

InProgress(r) == req[r].pc \notin {"absent", "arrived", "done"}

\* an exception leaves the view function: the request goes to the boundary
Fail(r, first, exc) ==
    req' = [req EXCEPT ![r].firstRaised = first, ![r].raised = exc,
                       ![r].pc = "respond"]

\* ---------------------------------------------------------------- actions
\* Flask calls the view function of the route
Dispatch(r) ==
    /\ req[r].pc = "arrived"
    /\ overlapped' = (overlapped \/ \E o \in Reqs \ {r} : InProgress(o))
    /\ IF req[r].endpoint = "public"
       THEN req' = [req EXCEPT
                ![r].result = TextResult("Successfully accessed the public API endpoint!"),
                ![r].pc = "respond"]
       ELSE req' = [req EXCEPT ![r].pc = "decorated"]
    /\ UNCHANGED <<idp, file, file0, fetches>>

\* line 96, inside the try of decorated: every exception, an AuthError of
\* get_token_auth_header included, is caught at line 113 and replaced
ExtractHeader(r) ==
    /\ req[r].pc = "decorated"
    /\ LET got == get_token_auth_header(req[r].auth)
       IN IF got.exc # NoExc
          THEN Fail(r, got.exc, ErrUnableToParse)
          ELSE req' = [req EXCEPT ![r].token = got.token,
                                  ![r].stages = Append(@, "HeaderExtracted"),
                                  ![r].pc = "urlopen"]
    /\ UNCHANGED <<idp, file, file0, fetches, overlapped>>

\* a variant that sends the request to the discovery endpoint a second time
UrlOpenRetry(r) ==
    /\ req[r].pc = "urlopen"
    /\ fetches' = fetches + 2
    /\ req' = [req EXCEPT ![r].pc = "fetching"]
    /\ UNCHANGED <<idp, file, file0, overlapped>>

\* lines 97-100: urlopen sends the request to the discovery endpoint
UrlOpen(r) ==
    /\ req[r].pc = "urlopen"
    /\ fetches' = fetches + 1
    /\ req' = [req EXCEPT ![r].pc = "fetching"]
    /\ UNCHANGED <<idp, file, file0, overlapped>>

\* lines 97-101: the provider answers (it never does while it is stalled:
\* urlopen is called with no timeout) and json.loads parses the document
FetchReturn(r) ==
    /\ req[r].pc = "fetching"
    /\ idp.state # "stalled"
    /\ CASE idp.state = "down" -> Fail(r, OtherExc("URLError"), ErrUnableToParse)
         [] idp.state = "garbled" -> Fail(r, OtherExc("ValueError"), ErrUnableToParse)
         [] OTHER -> req' = [req EXCEPT ![r].jwks = idp.keys, ![r].pc = "resolve"]
    /\ UNCHANGED <<idp, file, file0, fetches, overlapped>>

\* lines 102-118 and 143-144
ResolveKey(r) ==
    /\ req[r].pc = "resolve"
    /\ LET found == FindKey(req[r].token, req[r].tok, req[r].jwks)
       IN IF found.exc # NoExc THEN Fail(r, found.exc, ErrUnableToParse)
          ELSE IF found.rsa_key = {} THEN Fail(r, ErrNoKey, ErrNoKey)
          ELSE req' = [req EXCEPT ![r].rsa_key = found.rsa_key,
                                  ![r].stages = Append(@, "KeyResolved"),
                                  ![r].pc = "verify"]
    /\ UNCHANGED <<idp, file, file0, fetches, overlapped>>

\* lines 119-142: jwt.decode, then current_user is set and f is called
Verify(r) ==
    /\ req[r].pc = "verify"
    /\ LET key == CHOOSE k \in req[r].rsa_key : TRUE
           class == jwt_decode(req[r].token, req[r].tok, key, CLIENT_ID, ISSUER, Now)
       IN IF class # "none"
          THEN Fail(r, OtherExc(class), DecodeError(class))
          ELSE req' = [req EXCEPT ![r].current_user = {req[r].tok},
                                  ![r].stages = Append(@, "Verified"),
                                  ![r].f_called = TRUE,
                                  ![r].pc = "view"]
    /\ UNCHANGED <<idp, file, file0, fetches, overlapped>>

\* acctinfo lines 209 and 214-217, acctudpate lines 224 and 230-233
CheckScope(r) ==
    /\ req[r].pc = "view"
    /\ LET has == requires_scope(req[r].auth, req[r].tok,
                                 RequiredScope(req[r].endpoint))
       IN IF has.exc # NoExc THEN Fail(r, has.exc, has.exc)
          ELSE IF ~has.value
          THEN req' = [req EXCEPT ![r].stages = Append(@, "ScopeChecked"),
                                  ![r].firstRaised = ErrUnauthorized,
                                  ![r].raised = ErrUnauthorized,
                                  ![r].pc = "respond"]
          ELSE req' = [req EXCEPT ![r].stages = Append(@, "ScopeChecked"),
                                  ![r].pc = "load"]
    /\ UNCHANGED <<idp, file, file0, fetches, overlapped>>

\* retrieve_policy_information lines 163-166, update_policy_information
\* lines 183-186: the emails claim is read, then the file is loaded
LoadAccounts(r) ==
    /\ req[r].pc = "load"
    /\ IF req[r].tok.emails = {}
       THEN req' = [req EXCEPT ![r].business = TRUE,
                               ![r].firstRaised = OtherExc("KeyError"),
                               ![r].raised = OtherExc("KeyError"),
                               ![r].pc = "respond"]
       ELSE req' = [req EXCEPT ![r].business = TRUE,
                               ![r].accounts = load_accounts(file),
                               ![r].pc = "search"]
    /\ UNCHANGED <<idp, file, file0, fetches, overlapped>>

\* retrieve_policy_information lines 167-176 (the body of the outer loop
\* returns in its first pass, so only the first email is ever looked up)
RetrievePolicy(r, email_addresses) ==
    IF email_addresses = <<>>
    THEN req' = [req EXCEPT ![r].result = JsonResult({}), ![r].pc = "respond"]
    ELSE IF req[r].accounts = {}
    THEN Fail(r, OtherExc("TypeError"), OtherExc("TypeError"))
    ELSE LET accounts == CHOOSE a \in req[r].accounts : TRUE
             email == email_addresses[1]
         IN IF HasEmail(accounts, email)
            THEN req' = [req EXCEPT
                     ![r].result = JsonResult({accounts[FirstIndex(accounts, email)]}),
                     ![r].pc = "respond"]
            ELSE \E p \in PolicyNumbers :
                     LET new_account == Account(DefaultBeneficiary, email, p)
                     IN req' = [req EXCEPT
                            ![r].accounts = {Append(accounts, new_account)},
                            ![r].result = JsonResult({new_account}),
                            ![r].pc = "open"]

\* update_policy_information lines 187-193 and acctudpate lines 225-229
UpdatePolicy(r, email_addresses) ==
    IF email_addresses = <<>>
    THEN req' = [req EXCEPT ![r].result = TextResult("Failure"), ![r].pc = "respond"]
    ELSE IF req[r].accounts = {}
    THEN Fail(r, OtherExc("TypeError"), OtherExc("TypeError"))
    ELSE LET accounts == CHOOSE a \in req[r].accounts : TRUE
             email == email_addresses[1]
         IN IF HasEmail(accounts, email)
            THEN req' = [req EXCEPT
                     ![r].accounts =
                         {[accounts EXCEPT ![FirstIndex(accounts, email)].beneficiary =
                                               req[r].name]},
                     ![r].result = TextResult("Success"),
                     ![r].pc = "open"]
            ELSE req' = [req EXCEPT ![r].result = TextResult("Failure"),
                                    ![r].pc = "respond"]

SearchAccounts(r) ==
    /\ req[r].pc = "search"
    /\ LET email_addresses == CHOOSE e \in req[r].tok.emails : TRUE
       IN IF req[r].endpoint = "acctinfo"
          THEN RetrievePolicy(r, email_addresses)
          ELSE UpdatePolicy(r, email_addresses)
    /\ UNCHANGED <<idp, file, file0, fetches, overlapped>>

\* update_accounts line 47: open(..., '+w') truncates the file
OpenAccounts(r) ==
    /\ req[r].pc = "open"
    /\ file' = {}
    /\ req' = [req EXCEPT ![r].pc = "write"]
    /\ UNCHANGED <<idp, file0, fetches, overlapped>>

\* update_accounts line 48: the whole list is written
WriteAccounts(r) ==
    /\ req[r].pc = "write"
    /\ file' = {json_dumps(CHOOSE a \in req[r].accounts : TRUE)}
    /\ req' = [req EXCEPT ![r].pc = "respond"]
    /\ UNCHANGED <<idp, file0, fetches, overlapped>>

\* the exception classes the application registers an error handler for:
\* app.py has no @app.errorhandler
ErrorHandlers == {}

\* Flask's answer: the view's return value, the registered handler's response
\* for an exception it handles, 500 for any other exception
HttpResponse(raised, result) ==
    IF raised = NoExc THEN [status |-> 200, result |-> result, error |-> NoExc]
    ELSE IF raised.type \in ErrorHandlers
    THEN [status |-> raised.status_code, result |-> NoResult, error |-> raised]
    ELSE [status |-> 500, result |-> NoResult, error |-> NoExc]

Respond(r) ==
    /\ req[r].pc = "respond"
    /\ req' = [req EXCEPT ![r].response = HttpResponse(req[r].raised, req[r].result),
                          ![r].pc = "done"]
    /\ UNCHANGED <<idp, file, file0, fetches, overlapped>>

Next ==
    \E r \in Reqs :
        \/ Dispatch(r)
        \/ ExtractHeader(r)
        \/ UrlOpen(r)
        \/ FetchReturn(r)
        \/ ResolveKey(r)
        \/ Verify(r)
        \/ CheckScope(r)
        \/ LoadAccounts(r)
        \/ SearchAccounts(r)
        \/ OpenAccounts(r)
        \/ WriteAccounts(r)
        \/ Respond(r)

\* ------------------------------------------------------------------ inputs
Token(kid, alg, signer, nbf, exp, aud, iss, scp, emails) ==
    [kid |-> kid, alg |-> alg, signer |-> signer, nbf |-> nbf, exp |-> exp,
     aud |-> aud, iss |-> iss, scp |-> scp, emails |-> emails]

\* a token the provider issued for this API, signed with key k1, not expired
ValidToken(scp, emails) ==
    Token({"k1"}, "RS256", "n1", {}, {Now + 1}, {CLIENT_ID}, ISSUER, scp, emails)

ReadScope == <<"Accounts.Read">>
ReadWriteScope == <<"Accounts.Read", SP, "Accounts.Write">>
BearerJwt == <<"Bearer", SP, "jwt">>

AuthTokens ==
    { t \in [kid : {{"k1"}, {"k2"}, {}}, alg : {"RS256", "HS256"}, signer : Moduli,
             nbf : {{}, {Now + 1}}, exp : {{}, {Now - 1}, {Now}, {Now + 1}},
             aud : {{}, {CLIENT_ID}, {"other-client"}},
             iss : {ISSUER, "other-issuer"},
             scp : {{}, {ReadScope}, {ReadWriteScope}},
             emails : {{<<"e1">>}}] :
        t.alg = "RS256" \/ t.signer = "n1" }

AuthHeaders ==
    { {}, {<<>>}, {<<SP>>}, {<<"Bearer">>}, {<<"Basic", SP, "jwt">>},
      {<<"Bearer", SP, "jwt", SP, "junk">>}, {<<"bearer", SP, "jwt">>},
      {<<"Bearer", SP, "junk">>}, {<<"Bearer", SP, "jwt", "junk">>} }

Input(endpoint, auth, tok, name) ==
    [endpoint |-> endpoint, auth |-> auth, tok |-> tok, name |-> name]

Protected == {"acctinfo", "acctupdate"}
Endpoints == Protected \cup {"public"}
NewName == "Marge Simpson"

IdpStates ==
    {[state |-> "up", keys |-> ks] : ks \in KeySets}
        \cup {[state |-> s, keys |-> <<>>] : s \in {"down", "garbled", "stalled"}}

PublishedKeys == <<[kid |-> {"k1"}, n |-> "n1", full |-> TRUE]>>

ExistingAccount(email) == Account("Bart Simpson", email, MaxPolicy)
InitialFiles == {{json_dumps(<<>>)}, {json_dumps(<<ExistingAccount("e1")>>)}}

\* one request at a time, over every kind of header, token and provider state
AuthInputs ==
    {Input(e, {BearerJwt}, t, NewName) : e \in Protected, t \in AuthTokens}
        \cup {Input(e, h, ValidToken({ReadWriteScope}, {<<"e1">>}), NewName) :
                  e \in Endpoints, h \in AuthHeaders}

Init ==
    /\ \E in \in AuthInputs :
           req = [r \in Reqs |-> IF r = 1 THEN NewRequest(in) ELSE Absent]
    /\ idp \in IdpStates
    /\ file = {json_dumps(<<ExistingAccount("e1")>>)}
    /\ file0 = file
    /\ fetches = 0
    /\ overlapped = FALSE

Spec == Init /\ [][Next]_vars

\* get_token_auth_header over every header value of up to MaxHeaderLen atoms
HeaderAtoms == {SP, "Bearer", "bearer", "Basic", "jwt", "junk"}
AllHeaders == {{}} \cup {{s} : s \in StringsUpTo(HeaderAtoms, MaxHeaderLen)}

InitHeader ==
    /\ \E h \in AllHeaders :
           req = [r \in Reqs |->
                     IF r = 1
                     THEN NewRequest(Input("acctinfo", h,
                                           ValidToken({ReadScope}, {<<"e1">>}), NewName))
                     ELSE Absent]
    /\ idp = [state |-> "up", keys |-> PublishedKeys]
    /\ file \in InitialFiles
    /\ file0 = file
    /\ fetches = 0
    /\ overlapped = FALSE

SpecHeader == InitHeader /\ [][Next]_vars

\* requires_scope over every scp claim of up to MaxScpLen atoms
ScpAtoms == {SP, "Accounts.Read", "Accounts.Write", "accounts.read", "X"}
AllScps == {{}} \cup {{s} : s \in StringsUpTo(ScpAtoms, MaxScpLen)}

InitScope ==
    /\ \E e \in Protected, scp \in AllScps :
           req = [r \in Reqs |->
                     IF r = 1
                     THEN NewRequest(Input(e, {BearerJwt},
                                           ValidToken(scp, {<<"e1">>}), NewName))
                     ELSE Absent]
    /\ idp = [state |-> "up", keys |-> PublishedKeys]
    /\ file \in InitialFiles
    /\ file0 = file
    /\ fetches = 0
    /\ overlapped = FALSE

SpecScope == InitScope /\ [][Next]_vars

\* two requests of authenticated callers, in every interleaving
ConcInputs ==
    {Input(e, {BearerJwt}, ValidToken({ReadWriteScope}, {<<m>>}), NewName) :
         e \in Protected, m \in {"e1", "e2"}}

InitConc ==
    /\ \E in1 \in ConcInputs, in2 \in ConcInputs :
           req = [r \in Reqs |-> IF r = 1 THEN NewRequest(in1) ELSE NewRequest(in2)]
    /\ idp = [state |-> "up", keys |-> PublishedKeys]
    /\ file \in InitialFiles
    /\ file0 = file
    /\ fetches = 0
    /\ overlapped = FALSE

SpecConc == InitConc /\ [][Next]_vars

\* one authenticated request over every emails claim and every store of up to
\* MaxAccounts records
Emails == {"e1", "e2"}
EmailLists == StringsUpTo(Emails, MaxEmails)
StoreAccounts == {ExistingAccount(m) : m \in Emails}
StoreFiles == {{json_dumps(a)} : a \in StringsUpTo(StoreAccounts, MaxAccounts)}

StoreInputs ==
    {Input(e, {BearerJwt}, ValidToken({ReadWriteScope}, {l}), NewName) :
         e \in Protected, l \in EmailLists}

InitStore ==
    /\ \E in \in StoreInputs :
           req = [r \in Reqs |-> IF r = 1 THEN NewRequest(in) ELSE Absent]
    /\ idp = [state |-> "up", keys |-> PublishedKeys]
    /\ file \in StoreFiles
    /\ file0 = file
    /\ fetches = 0
    /\ overlapped = FALSE

SpecStore == InitStore /\ [][Next]_vars

\* ------------------------------------------------------------------ claims
Finished(r) == req[r].pc \in {"respond", "done"}
Passed(r, stage) == \E i \in 1..Len(req[r].stages) : req[r].stages[i] = stage
IsProtected(r) == req[r].pc # "absent" /\ req[r].endpoint \in Protected

\* C1: an AuthError raised at any stage leaves the view function with the
\* code, description and status it was raised with; a request with no
\* Authorization header is denied with authorization_header_missing.
C1_ErrorCarriedUnchanged ==
    \A r \in Reqs :
        (Finished(r) /\ IsProtected(r) /\ req[r].firstRaised.type = "AuthError")
            => req[r].raised = req[r].firstRaised

\* what get_token_auth_header did in a request that is past it
HeaderOutcome(r) ==
    IF req[r].stages = <<>> THEN Raised(req[r].firstRaised)
    ELSE Returned(req[r].token)

PastExtraction(r) ==
    IsProtected(r) /\ req[r].pc \notin {"arrived", "decorated"}

\* the outcome the extractor contract lists for the parts of a header
ContractHolds(auth, out) ==
    /\ (auth = {} \/ auth = {<<>>}) => out = Raised(ErrHeaderMissing)
    /\ \A h \in auth :
           LET parts == split(h)
               bearer == parts # <<>> /\ lower(parts[1]) = <<"bearer">>
           IN /\ (Len(parts) = 2 /\ ~bearer) => out = Raised(ErrNotBearer)
              /\ (Len(parts) > 2 /\ bearer) => out = Raised(ErrNotBearerToken)
              /\ (Len(parts) = 2 /\ bearer) => out = Returned(parts[2])
              /\ ~(Len(parts) = 2 /\ bearer) => out.exc.type = "AuthError"

\* C2: get_token_auth_header gives every header value the outcome of the
\* extractor contract, and fails on a malformed header with an AuthError only.
C2_ExtractorContract ==
    \A r \in Reqs : PastExtraction(r) => ContractHolds(req[r].auth, HeaderOutcome(r))

\* C3: with the discovery endpoint unreachable or its document malformed, a
\* protected request is answered 401 with code invalid_header, never 500.
C3_DiscoveryFailureIs401 ==
    \A r \in Reqs :
        (req[r].pc = "done" /\ IsProtected(r) /\ idp.state \in {"down", "garbled"})
            => /\ req[r].response.status = 401
               /\ req[r].response.error.code = "invalid_header"

\* the key set was fetched and the request went through key resolution
KeyLookupDone(r) ==
    /\ IsProtected(r)
    /\ Passed(r, "HeaderExtracted")
    /\ idp.state = "up"
    /\ req[r].pc \notin {"urlopen", "fetching", "resolve"}

\* the kid of the token's header, {} when the header has none or is unreadable
HeaderKid(r) == IF req[r].token[1] = "jwt" THEN req[r].tok.kid ELSE {}

KidPublished(r) ==
    \E i \in 1..Len(req[r].jwks) :
        req[r].jwks[i].kid # {} /\ req[r].jwks[i].kid = HeaderKid(r)

\* C4: a token whose kid matches no key of the fetched key set is denied with
\* invalid_header (401); the handler is not called and no user is attached.
C4_UnknownKidDenied ==
    \A r \in Reqs :
        (KeyLookupDone(r) /\ ~KidPublished(r))
            => /\ Finished(r)
               /\ req[r].raised.type = "AuthError"
               /\ req[r].raised.code = "invalid_header"
               /\ req[r].raised.status_code = 401
               /\ ~req[r].f_called
               /\ req[r].current_user = {}
               /\ ~Passed(r, "Verified")

C4_Witness ==
    \E r \in Reqs :
        /\ KeyLookupDone(r) /\ ~KidPublished(r)
        /\ req[r].tok.kid = {"k2"} /\ req[r].jwks # <<>>
        /\ req[r].raised = ErrNoKey
        /\ req[r].pc = "done"

\* jwt.decode was called with a resolved key and has come back
VerifyDone(r) ==
    IsProtected(r) /\ Passed(r, "KeyResolved") /\ req[r].pc # "verify"

\* exp lies in the past by one second or more
ExpInPast(r) == \E t \in req[r].tok.exp : t + 1 <= Now

\* the token is as its issuer signed it, with RS256 and the resolved key
WellSigned(r) ==
    /\ req[r].token = <<"jwt">>
    /\ req[r].tok.alg = "RS256"
    /\ \E k \in req[r].rsa_key : k.n = req[r].tok.signer

NbfInFuture(r) == \E t \in req[r].tok.nbf : t > Now

\* C5 as stated: an expired token fails with token_expired whether or not its
\* signature is valid.
C5_ExpiredWhateverSignature ==
    \A r \in Reqs : (VerifyDone(r) /\ ExpInPast(r)) => req[r].raised = ErrTokenExpired

\* C5 as amended: an expired token whose signature is valid (and whose nbf is
\* not in the future) fails with token_expired; an expired token whose
\* signature is invalid fails with invalid_header; neither reaches the handler.
C5_ExpiredAfterSignature ==
    \A r \in Reqs :
        (VerifyDone(r) /\ ExpInPast(r))
            => /\ ~req[r].f_called
               /\ (WellSigned(r) /\ ~NbfInFuture(r)) => req[r].raised = ErrTokenExpired
               /\ ~WellSigned(r) => req[r].raised = ErrUnableToParse

C5_Witness ==
    \E r \in Reqs :
        /\ VerifyDone(r) /\ ExpInPast(r) /\ WellSigned(r)
        /\ req[r].tok.aud = {"other-client"}
        /\ req[r].raised = ErrTokenExpired
        /\ req[r].pc = "done"

Unexpired(r) == \A t \in req[r].tok.exp : t >= Now

\* C6: a well-signed unexpired token fails with invalid_claims whenever its aud
\* is not the client id or its iss is not the issuer, and reaches the handler
\* as the current user only when both match.
C6_AudIssDecide ==
    \A r \in Reqs :
        (VerifyDone(r) /\ WellSigned(r) /\ Unexpired(r))
            => /\ (req[r].tok.aud # {CLIENT_ID} \/ req[r].tok.iss # ISSUER)
                      => req[r].raised = ErrInvalidClaims
               /\ (req[r].f_called \/ req[r].current_user # {})
                      => (req[r].tok.aud = {CLIENT_ID} /\ req[r].tok.iss = ISSUER)

\* required_scope occurs in s as a whole whitespace-delimited element
OccursAsElement(s, required_scope) ==
    \E i \in 1..Len(s) :
        LET j == i + Len(required_scope) - 1
        IN /\ j <= Len(s)
           /\ SubSeq(s, i, j) = required_scope
           /\ (i = 1 \/ s[i - 1] = SP)
           /\ (j = Len(s) \/ s[j + 1] = SP)

ScopeGranted(r) == Passed(r, "ScopeChecked") /\ req[r].firstRaised # ErrUnauthorized
ScopeRefused(r) == Passed(r, "ScopeChecked") /\ req[r].raised = ErrUnauthorized

\* C7: requires_scope(required) is true exactly when the scp claim holds
\* required as one of its whitespace-separated elements, compared exactly;
\* it is false for a missing or empty scp, a prefix, a case variant.
C7_ScopeExactMatch ==
    \A r \in Reqs :
        Passed(r, "ScopeChecked")
            => /\ ScopeGranted(r) <=>
                      \E s \in req[r].tok.scp :
                          OccursAsElement(s, RequiredScope(req[r].endpoint))
               /\ ScopeGranted(r) <=> ~ScopeRefused(r)

\* a token whose scp is 'Accounts.Read' is refused Accounts.Write
C7_Witness ==
    \E r \in Reqs :
        /\ req[r].tok.scp = {<<"Accounts.Read">>}
        /\ req[r].endpoint = "acctupdate"
        /\ ScopeRefused(r)
        /\ req[r].pc = "done"

Codes401 ==
    {"authorization_header_missing", "invalid_header", "token_expired", "invalid_claims"}

StageOrder == <<"HeaderExtracted", "KeyResolved", "Verified", "ScopeChecked">>

\* C8: the 403 denial is raised only for a token jwt.decode accepted (signed
\* by the resolved key, not expired, audience and issuer accepted); a request
\* that fails authentication ends with one of the 401 errors; the stages are
\* passed in the order extraction, key resolution, verification, scope check.
C8_ForbiddenOnlyAfterAuthentication ==
    \A r \in Reqs :
        /\ req[r].raised.status_code = 403
               => /\ req[r].raised = ErrUnauthorized
                  /\ Passed(r, "Verified") /\ req[r].current_user = {req[r].tok}
                  /\ WellSigned(r) /\ Unexpired(r) /\ ~NbfInFuture(r)
                  /\ req[r].tok.iss = ISSUER
                  /\ req[r].tok.aud \subseteq {CLIENT_ID}
        /\ (Finished(r) /\ IsProtected(r) /\ ~Passed(r, "Verified"))
               => /\ req[r].raised.type = "AuthError"
                  /\ req[r].raised.status_code = 401
                  /\ req[r].raised.code \in Codes401
        /\ Len(req[r].stages) <= Len(StageOrder)
        /\ req[r].stages = SubSeq(StageOrder, 1, Len(req[r].stages))

C8_Witness ==
    \E r \in Reqs :
        /\ req[r].pc = "done"
        /\ req[r].raised = ErrUnauthorized
        /\ req[r].stages = StageOrder

BothDone == \A r \in Reqs : req[r].pc = "done"

SameUnseenEmail(m) ==
    /\ \A r \in Reqs : req[r].endpoint = "acctinfo" /\ req[r].tok.emails = {<<m>>}
    /\ \A a \in load_accounts(file0) : ~HasEmail(a, m)

RecordsFor(accounts, m) == {i \in 1..Len(accounts) : accounts[i].email = m}

\* C9: two concurrent /acctinfo requests for one unseen email, both answered
\* with an account, leave exactly one record for it, and both report the
\* stored record's policy number.
C9_OneRecordOnePolicyNumber ==
    \A m \in {"e1", "e2"} :
        (BothDone /\ SameUnseenEmail(m) /\ \A r \in Reqs : req[r].raised = NoExc)
            => /\ file # {}
               /\ \A a \in load_accounts(file) :
                      /\ Cardinality(RecordsFor(a, m)) = 1
                      /\ \A r \in Reqs, i \in RecordsFor(a, m) :
                             \E got \in req[r].result.account :
                                 got.policynumber = a[i].policynumber

SameKid == \A r, o \in Reqs : req[r].tok.kid = req[o].tok.kid

\* C10: two protected requests handled one right after the other, with tokens
\* of the same kid, fetch the discovery key set at most once in total.
C10_AtMostOneFetch ==
    (BothDone /\ ~overlapped /\ SameKid /\ \A r \in Reqs : IsProtected(r))
        => fetches <= 1

\* C11: at most one discovery fetch is in flight at any time.
C11_OneFetchInFlight ==
    Cardinality({r \in Reqs : req[r].pc = "fetching"}) <= 1

\* the list of accounts a file holds (no file is ever empty where this is used)
Stored(f) == CHOOSE a \in load_accounts(f) : TRUE

EmailsOf(r) == CHOOSE l \in req[r].tok.emails : TRUE

\* the records of accounts whose email is one of the caller's
RecordsOfCaller(accounts, emails) ==
    {accounts[i] : i \in {j \in 1..Len(accounts) :
                              \E k \in 1..Len(emails) : accounts[j].email = emails[k]}}

Answered(r, endpoint) ==
    /\ req[r].pc = "done"
    /\ req[r].endpoint = endpoint
    /\ req[r].business
    /\ req[r].tok.emails # {}

\* C12: /acctinfo returns the existing record of any of the caller's emails
\* and creates none; it creates a record (default beneficiary, policy number
\* in 10000000..99999999) only when none of the caller's emails has one.
C12_LookupByAnyEmail ==
    \A r \in Reqs :
        (Answered(r, "acctinfo") /\ file0 # {})
            => LET known == RecordsOfCaller(Stored(file0), EmailsOf(r))
               IN /\ known # {}
                      => /\ file = file0
                         /\ req[r].result.account # {}
                         /\ req[r].result.account \subseteq known
                  /\ file # file0
                      => /\ known = {}
                         /\ \E new \in req[r].result.account :
                                /\ file = {json_dumps(Append(Stored(file0), new))}
                                /\ new.beneficiary = DefaultBeneficiary
                                /\ new.policynumber \in MinPolicy..MaxPolicy

\* the next step of request r, whichever it is
RequestStep(r) ==
    \/ Dispatch(r) \/ ExtractHeader(r) \/ UrlOpen(r) \/ FetchReturn(r)
    \/ ResolveKey(r) \/ Verify(r) \/ CheckScope(r) \/ LoadAccounts(r)
    \/ SearchAccounts(r) \/ OpenAccounts(r) \/ WriteAccounts(r) \/ Respond(r)

\* C13: a protected request that has not been answered can always take its
\* next step, a stalled identity provider notwithstanding: the key-set fetch
\* is bounded by a timeout, so no request waits forever.
C13_NeverHangs ==
    \A r \in Reqs :
        (IsProtected(r) /\ req[r].pc # "done") => ENABLED RequestStep(r)

\* C14: jwt.decode reports the first failing check in the order signature,
\* expiry, audience and issuer: invalid_header for a bad signature, else
\* token_expired for an expired token, else invalid_claims for an aud or iss
\* that does not match.
C14_FirstFailingCheck ==
    \A r \in Reqs :
        (VerifyDone(r) /\ ~NbfInFuture(r))
            => /\ ~WellSigned(r) => req[r].raised = ErrUnableToParse
               /\ (WellSigned(r) /\ ExpInPast(r)) => req[r].raised = ErrTokenExpired
               /\ (WellSigned(r) /\ Unexpired(r)
                      /\ (req[r].tok.aud # {CLIENT_ID} \/ req[r].tok.iss # ISSUER))
                      => req[r].raised = ErrInvalidClaims

\* the request's Authorization header is present and has exactly one part
OnePart(r) == \E h \in req[r].auth : Len(split(h)) = 1

\* C15 as stated: a header of exactly one part, whatever the part is, is
\* rejected by get_token_auth_header with invalid_header, 'Token not found'.
C15_OnePartTokenNotFound ==
    \A r \in Reqs :
        (PastExtraction(r) /\ OnePart(r)) => HeaderOutcome(r) = Raised(ErrTokenNotFound)

\* C15 as amended: a header of exactly one part is rejected with
\* invalid_header (401); the description is 'Token not found' when the part
\* is the word bearer in any case, and 'Authorization header must start with
\* Bearer' when it is anything else, the scheme being checked first.
C15_OnePartByScheme ==
    \A r \in Reqs :
        (PastExtraction(r) /\ OnePart(r))
            => \E h \in req[r].auth :
                   /\ HeaderOutcome(r).exc.code = "invalid_header"
                   /\ HeaderOutcome(r).exc.status_code = 401
                   /\ IF lower(split(h)[1]) = <<"bearer">>
                      THEN HeaderOutcome(r) = Raised(ErrTokenNotFound)
                      ELSE HeaderOutcome(r) = Raised(ErrNotBearer)

C15_Witness ==
    \E r \in Reqs :
        /\ req[r].auth = {<<"Bearer">>}
        /\ HeaderOutcome(r) = Raised(ErrTokenNotFound)
        /\ req[r].pc = "done"

\* the indices of the records of accounts that belong to the caller
IndicesOfCaller(accounts, emails) ==
    {j \in 1..Len(accounts) : \E k \in 1..Len(emails) : accounts[j].email = emails[k]}

\* after differs from before in the beneficiary of record i alone, which is v
OnlyBeneficiary(before, after, i, v) ==
    after = [before EXCEPT ![i].beneficiary = v]

\* C16: /acctupdate?name=v for a caller who has a record answers 'Success' and
\* replaces the beneficiary of one matched record with v, leaving its email
\* and policynumber, every other record and the order of records as they
\* were; for a caller with no record it answers 'Failure' and leaves the
\* store unchanged.
C16_UpdateOnlyBeneficiary ==
    \A r \in Reqs :
        (Answered(r, "acctupdate") /\ file0 # {})
            => LET before == Stored(file0)
                   mine == IndicesOfCaller(before, EmailsOf(r))
               IN /\ mine # {}
                      => /\ req[r].result = TextResult("Success")
                         /\ file # {}
                         /\ \E i \in mine :
                                OnlyBeneficiary(before, Stored(file), i, req[r].name)
                  /\ mine = {}
                      => /\ req[r].result = TextResult("Failure")
                         /\ file = file0

\* the request ended Denied: an AuthError of status 401 or 403 left the view
Denied(r) ==
    /\ Finished(r)
    /\ req[r].raised.type = "AuthError"
    /\ req[r].raised.status_code \in {401, 403}

\* C17: a request that ends Denied, and a request to /public, neither reads
\* nor writes the account store, whose content stays as it was; the business
\* functions run only for a verified token that holds the required scope.
C17_DeniedLeavesStore ==
    /\ \A r \in Reqs :
           /\ (Denied(r) \/ (req[r].pc # "absent" /\ req[r].endpoint = "public"))
                  => /\ file = file0
                     /\ ~req[r].business
                     /\ req[r].accounts = {}
           /\ (req[r].business \/ req[r].accounts # {})
                  => /\ IsProtected(r)
                     /\ Passed(r, "Verified") /\ WellSigned(r)
                     /\ req[r].current_user = {req[r].tok}
                     /\ \E s \in req[r].tok.scp :
                            OccursAsElement(s, RequiredScope(req[r].endpoint))
    /\ file # file0 => \E r \in Reqs : req[r].business

\* a request denied with 403 for the missing Accounts.Write scope
C17_Witness ==
    \E r \in Reqs :
        /\ req[r].pc = "done"
        /\ Denied(r) /\ req[r].raised.status_code = 403
        /\ req[r].endpoint = "acctupdate"
        /\ req[r].tok.scp = {ReadScope}
        /\ file = file0 /\ ~req[r].business

\* at most one record per email
UniqueEmails(accounts) ==
    \A i, j \in 1..Len(accounts) : accounts[i].email = accounts[j].email => i = j

\* every record of before is in after at its place, email and policynumber kept
IdentityKept(before, after) ==
    /\ Len(after) >= Len(before)
    /\ \A i \in 1..Len(before) :
           /\ after[i].email = before[i].email
           /\ after[i].policynumber = before[i].policynumber

\* the record a finished /acctinfo created or returned is in accounts
ReturnedRecordKept(r, accounts) ==
    (req[r].pc = "done" /\ req[r].endpoint = "acctinfo")
        => \A got \in req[r].result.account :
               \E i \in 1..Len(accounts) :
                   /\ accounts[i].email = got.email
                   /\ accounts[i].policynumber = got.policynumber

\* C18: with requests handled one at a time, a store that starts with at
\* most one record per email keeps at most one record per email, and every
\* record keeps its email and policynumber once created.
C18_EmailsStayUnique ==
    (~overlapped /\ file # {} /\ UniqueEmails(Stored(file0)))
        => /\ UniqueEmails(Stored(file))
           /\ IdentityKept(Stored(file0), Stored(file))
           /\ \A r \in Reqs : ReturnedRecordKept(r, Stored(file))

\* two requests one after the other: a record created for e2, then the
\* beneficiary of e1 replaced
C18_Witness ==
    /\ BothDone /\ ~overlapped /\ file # {} /\ file # file0
    /\ Len(Stored(file0)) = 1
    /\ Len(Stored(file)) = 2
    /\ \E r \in Reqs : req[r].endpoint = "acctupdate" /\ req[r].result = TextResult("Success")
    /\ \E r \in Reqs : req[r].endpoint = "acctinfo" /\ req[r].tok.emails = {<<"e2">>}

DifferentEmails ==
    \A r, o \in Reqs :
        r # o => \A k \in 1..Len(EmailsOf(r)), l \in 1..Len(EmailsOf(o)) :
                     EmailsOf(r)[k] # EmailsOf(o)[l]

\* what request r reported is in accounts: the record /acctinfo returned, the
\* beneficiary /acctupdate said it had replaced
TookEffect(r, accounts) ==
    IF req[r].endpoint = "acctinfo"
    THEN \A got \in req[r].result.account :
             \E i \in 1..Len(accounts) : accounts[i] = got
    ELSE req[r].result = TextResult("Success")
             => \E i \in 1..Len(accounts) :
                    /\ accounts[i].email = EmailsOf(r)[1]
                    /\ accounts[i].beneficiary = req[r].name

\* C19: two concurrent authorized requests for different emails both take
\* effect: the final store holds the result of both under every interleaving.
C19_BothTakeEffect ==
    (BothDone /\ DifferentEmails /\ \A r \in Reqs : req[r].raised = NoExc)
        => /\ file # {}
           /\ \A r \in Reqs : TookEffect(r, Stored(file))

\* get_token_auth_header rejected the header of request r
HeaderRejected(r) == PastExtraction(r) /\ req[r].stages = <<>>

\* no stage is passed twice
NoStageTwice(r) ==
    \A i, j \in 1..Len(req[r].stages) : req[r].stages[i] = req[r].stages[j] => i = j

\* C20: a protected request issues no discovery fetch before its header is
\* extracted and none at all when the header is rejected; once its header is
\* accepted it issues exactly one fetch, and passes no stage twice.
C20_ExtractionBeforeOneFetch ==
    \A r \in Reqs :
        IsProtected(r)
            => /\ (~PastExtraction(r) \/ HeaderRejected(r) \/ req[r].pc = "urlopen")
                      => fetches = 0
               /\ (Passed(r, "HeaderExtracted") /\ req[r].pc # "urlopen")
                      => fetches = 1
               /\ NoStageTwice(r)

\* an answered request whose header was accepted, with its one fetch
C20_Witness ==
    \E r \in Reqs :
        /\ IsProtected(r) /\ req[r].pc = "done"
        /\ req[r].auth = {BearerJwt}
        /\ req[r].stages = StageOrder
        /\ fetches = 1

====
